---- MODULE Spec2Model ----
(***************************************************************************)
(* AsyncTwitchBotAPI: the IRC client (twitchbot/irc/irc_client.py), the    *)
(* handler registry and dispatcher and the bot's lifecycle                 *)
(* (twitchbot/_bot.py) and the task scheduler (twitchbot/_scheduler.py).   *)
(*                                                                         *)
(* The specifications share the variables:                                 *)
(*   SpecIRC       one caller drives the IRCClient methods one at a time;  *)
(*   SpecDispatch  handlers are registered and _call_handlers is applied   *)
(*                 to tokenized inputs;                                    *)
(*   SpecParse     Subscription.from_response is applied to tag prefixes;  *)
(*   Spec          a TwitchBot runs on the asyncio event loop: _run_task,  *)
(*                 Scheduler.run and its wrappers, the handler tasks and   *)
(*                 stop() interleave at their await points;                *)
(*   SpecSchedule, SpecDefaultRepeat, SpecCommands, SpecGreet              *)
(*                 the same bot with the registrations of the examples.    *)
(***************************************************************************)
EXTENDS Integers, Sequences, FiniteSets, TLC

\* Python's None
None == "None"

(***************************************************************************)
(* Bounds of the model                                                     *)
(***************************************************************************)
\* tags in the tag prefix of one line (SpecParse)
MaxTags == 3
\* lines written to one transport (SpecIRC)
MaxWire == 5
\* registrations in the handler list (SpecDispatch)
MaxHandlers == 3
\* the repeat count N > 0 of the bounded scheduled task
RepeatN == 2
\* firings of a repeat = -1 task that the model follows
MaxCount == 1
\* chat lines the receive loop takes up in one run
MaxReads == 2

VARIABLES
    irc,            \* IRCClient: _sock, _reader, _writer, _channel, and the
                    \* lines written to the open transport
    lastCall,       \* SpecIRC: the last IRCClient call, its outcome, the state before
                    \* it, whether join_channel was called earlier
    handlers,       \* TwitchBot._messages_handlers
    tasks,          \* Scheduler._scheduled_tasks: the repeat argument of each wrapper
    lastDispatch,   \* SpecDispatch: the last _call_handlers call and what it invoked
    botRunning,     \* TwitchBot._running
    schedRunning,   \* Scheduler._running
    mainPc,         \* where _run_task is suspended
    stopBehindRun,  \* the stop() task was created after the Scheduler.run() task
                    \* and while that task had not started
    stopPc,         \* where stop() is suspended
    schedPc,        \* the task running Scheduler.run()
    wr,             \* the wrapper coroutines: started by Scheduler.run() and by stop()
    hRunning,       \* handler tasks created by _call_handlers and not finished
    hFlushing,      \* those of them inside send_message, between write() and the
                    \* return of drain()
    hFailed,        \* handler tasks that ended by raising
    taskErrLogged,  \* "Task raised an exception" lines logged by _handle_task_result,
                    \* by the kind of task
    nReads,         \* chat lines taken up by the receive loop so far
    crashCause,     \* what ended _run_task with an exception, if anything
    lastLine,       \* the last chat line the receive loop handed to Sender(resp)
    parsed          \* SpecParse: the last tag list parsed and the result

ircVars == <<irc, lastCall>>
dispatchVars == <<handlers, lastDispatch, tasks>>
inputVars == <<lastLine, parsed>>
botVars == <<botRunning, schedRunning, mainPc, stopBehindRun, stopPc, schedPc,
             hRunning, hFlushing, hFailed, taskErrLogged, nReads, crashCause>>
vars == <<irc, lastCall, handlers, lastDispatch, tasks, botRunning, schedRunning, mainPc,
          stopBehindRun, stopPc, schedPc, wr, hRunning, hFlushing, hFailed,
          taskErrLogged, nReads, crashCause, lastLine, parsed>>

(***************************************************************************)
(* IRCClient                                                               *)
(***************************************************************************)
\* channel names: the one the bot is configured with, and another one
BotChannel == "chan"
Channels == {BotChannel, "other"}

\* lines the client writes
CapLine == [cmd |-> "CAP REQ", arg |-> ":twitch.tv/tags"]
PassLine == [cmd |-> "PASS", arg |-> "oauth"]
NickLine == [cmd |-> "NICK", arg |-> "username"]
JoinLine(ch) == [cmd |-> "JOIN", arg |-> ch]
PartLine(ch) == [cmd |-> "PART", arg |-> ch]
PrivmsgLine(ch) == [cmd |-> "PRIVMSG", arg |-> ch]
PongLine == [cmd |-> "PONG", arg |-> ":tmi.twitch.tv"]
QuitLine == [cmd |-> "QUIT", arg |-> ""]

\* IRCClient.__init__: nothing is open, no channel
NewClient == [sock |-> None, reader |-> None, writer |-> None, channel |-> None,
              wire |-> <<>>]

\* TwitchBot.__init__: the IRCClient fields, then _channel overwritten by the
\* configured channel name
NewBotClient == [NewClient EXCEPT !.channel = BotChannel]

\* _is_connected: the socket object made by connect() is only ever closed by
\* disconnect(), which drops it in the same step, so fileno() != -1 whenever
\* _sock is not None
IsConnected(c) == c.sock # None

\* StreamWriter.write: a closed transport drops the data
Write(c, line) ==
    IF c.writer = "open" THEN [c EXCEPT !.wire = Append(@, line)] ELSE c

\* the outcome of a call: the client after it, the exception that reached the
\* caller and the exception that was caught and logged inside (None: none)
Outcome(c, raised, caught) == [c |-> c, raised |-> raised, caught |-> caught]

\* connect(), up to its first await: the socket object is made
ConnectBegin(c) == [c EXCEPT !.sock = "open"]

\* connect() after open_connection returned: the streams of a new transport,
\* the three handshake lines written to it
ConnectOpened(c) ==
    [c EXCEPT !.reader = "open", !.writer = "open",
              !.wire = <<CapLine, PassLine, NickLine>>]

\* connect(), whole: openOk, drainOk are what open_connection and drain() do
Connect(c, openOk, drainOk) ==
    IF IsConnected(c) THEN Outcome(c, None, None)
    ELSE IF ~openOk THEN Outcome(ConnectBegin(c), "OSError", None)
    ELSE IF ~drainOk THEN Outcome(ConnectOpened(ConnectBegin(c)), "OSError", None)
    ELSE Outcome(ConnectOpened(ConnectBegin(c)), None, None)

\* send_message()
SendMessage(c, drainOk) ==
    IF ~IsConnected(c) THEN Outcome(c, "NotConnectedError", None)
    ELSE IF c.writer = None THEN Outcome(c, None, "NotConnectedError")
    ELSE LET c1 == Write(c, PrivmsgLine(c.channel))
         IN  IF drainOk THEN Outcome(c1, None, None)
             ELSE Outcome(c1, None, "OSError")

\* _send_pong()
SendPong(c, drainOk) ==
    IF c.writer = None THEN Outcome(c, None, "NotConnectedError")
    ELSE LET c1 == Write(c, PongLine)
         IN  IF drainOk THEN Outcome(c1, None, None)
             ELSE Outcome(c1, None, "OSError")

\* join_channel() after the join line was written: drain(), then the channel is set
JoinDrained(c, ch, drainOk) ==
    IF drainOk THEN Outcome([c EXCEPT !.channel = ch], None, None)
    ELSE Outcome(c, None, "OSError")

\* join_channel(), whole
JoinChannel(c, ch, drainOk) ==
    IF c.writer = None THEN Outcome(c, None, "NotConnectedError")
    ELSE JoinDrained(Write(c, JoinLine(ch)), ch, drainOk)

\* quit_channel()
QuitChannel(c, drainOk) ==
    IF c.writer = None THEN Outcome(c, None, "NotConnectedError")
    ELSE LET c1 == Write(c, PartLine(c.channel))
         IN  IF drainOk THEN Outcome([c1 EXCEPT !.channel = None], None, None)
             ELSE Outcome(c1, None, "OSError")

\* disconnect(), up to its first await: the quit line is written
DisconnectBegin(c) == IF c.writer # None THEN Write(c, QuitLine) ELSE c

\* disconnect(), from after "self._writer = None" to the end
DisconnectRest(c) == [c EXCEPT !.reader = None, !.sock = None]

\* disconnect() after drain() returned: close() and wait_closed()
DisconnectClose(c, closeOk) ==
    LET c1 == [c EXCEPT !.writer = "closed"]
    IN  IF ~closeOk THEN Outcome(c1, None, "OSError")
        ELSE Outcome(DisconnectRest([c1 EXCEPT !.writer = None]), None, None)

\* disconnect() after the quit line was written: drain(), then the rest
DisconnectDrained(c, drainOk, closeOk) ==
    IF ~drainOk THEN Outcome(c, None, "OSError")
    ELSE DisconnectClose(c, closeOk)

\* disconnect(), whole
Disconnect(c, drainOk, closeOk) ==
    IF c.writer # None THEN DisconnectDrained(DisconnectBegin(c), drainOk, closeOk)
    ELSE Outcome(DisconnectRest(c), None, None)

(***************************************************************************)
(* Inbound data                                                            *)
(***************************************************************************)
Users == {"owner", "user123"}

\* the token lists message.rstrip().split(" ") can give: never empty
ArgLists == {<<"!greet", "world">>, <<"!test">>, <<"world">>, <<"!greet">>}

\* a PRIVMSG line: whether it carries the user-id= and subscriber= tags, who
\* sent it, the words of its message
ChatLines == [userId : BOOLEAN, subscriber : BOOLEAN, user : Users, words : ArgLists]

\* what one read() returns, decoded: whether it is b"" (end of stream), which
\* control lines are in the chunk and the chat lines in it (at most one here)
EmptyChunk == [empty |-> TRUE, ping |-> FALSE, welcome |-> FALSE, capack |-> FALSE,
               chat |-> <<>>]
Chunks == [empty : {FALSE}, ping : BOOLEAN, welcome : BOOLEAN, capack : BOOLEAN,
           chat : {<<>>} \cup {<<l>> : l \in ChatLines}]

\* get_response(): readOk is whether read() and decode() succeed; resp is the
\* string returned
Response(c, raised, caught, resp) ==
    [c |-> c, raised |-> raised, caught |-> caught, resp |-> resp]

\* a classification that hands the capability acknowledgement to the caller
GetResponseReturnsAck(c, chunk, readOk, drainOk) ==
    IF c.reader = None THEN Response(c, None, "NotConnectedError", EmptyChunk)
    ELSE IF ~readOk THEN Response(c, None, "OSError", EmptyChunk)
    ELSE IF chunk.ping
         THEN LET p == SendPong(c, drainOk)
              IN  Response(p.c, None, p.caught, EmptyChunk)
    ELSE IF chunk.welcome THEN Response(c, None, None, EmptyChunk)
    ELSE Response(c, None, None, chunk)

GetResponse(c, chunk, readOk, drainOk) ==
    IF c.reader = None THEN Response(c, None, "NotConnectedError", EmptyChunk)
    ELSE IF ~readOk THEN Response(c, None, "OSError", EmptyChunk)
    ELSE IF chunk = EmptyChunk THEN Response(c, None, None, EmptyChunk)
    ELSE IF chunk.ping
         THEN LET p == SendPong(c, drainOk)
              IN  Response(p.c, None, p.caught, EmptyChunk)
    ELSE IF chunk.welcome THEN Response(c, None, None, EmptyChunk)
    ELSE IF ~chunk.capack THEN Response(c, None, None, chunk)
    ELSE Response(c, None, None, EmptyChunk)

(***************************************************************************)
(* Handler registry and dispatcher                                         *)
(***************************************************************************)
\* the command words handlers are registered for
Cmds == {"!greet", "!test"}

\* predicates given as func=: a function of the sender
Preds == {"is_owner"}

\* func(sender), as in the examples: lambda sender: sender.username == USERNAME
PredEval(p, sender) == sender.username = "owner"

\* the Sender fields the dispatcher and the predicates read
Senders == [username : Users]

\* an optional argument: <<>> is None, <<v>> is the value v
Opt(S) == {<<>>} \cup {<<v>> : v \in S}

\* _build_handler_dict: the filters that are not None
BuildHandlerDict(handler, kw) ==
    [function |-> handler,
     filters |-> [k \in {k \in DOMAIN kw : kw[k] # <<>>} |-> kw[k][1]]]

\* message_handler(messages, func)(handler): the list with the registration appended
MessageHandler(hs, handler, messages, func) ==
    Append(hs, BuildHandlerDict(handler, [commands |-> messages, func |-> func]))

\* a command test that forgets the registrations without a command list
CommandMatchesNoCatchAll(filters, cmd) ==
    "commands" \in DOMAIN filters /\ cmd \in filters["commands"]

\* the command test of _call_handlers
CommandMatches(filters, cmd) ==
    \/ ("commands" \in DOMAIN filters /\ cmd \in filters["commands"])
    \/ ~("commands" \in DOMAIN filters)

\* a predicate test that never rejects
PredicateRejectsNever(filters, sender) == FALSE

\* the predicate test of _call_handlers: filters["func"](sender) is False
PredicateRejects(filters, sender) ==
    "func" \in DOMAIN filters /\ PredEval(filters["func"], sender) = FALSE

\* the command word dropped whether or not there is a command list
HandlerArgsAlwaysTail(filters, args) == Tail(args)

\* what the handler is called with
HandlerArgs(filters, args) ==
    IF "commands" \in DOMAIN filters THEN Tail(args) ELSE args

\* the for loop of _call_handlers from registration i on: the registrations a
\* task is created for, the sender and the arguments passed, the value returned
RECURSIVE ScanHandlers(_, _, _, _)
ScanHandlers(hs, i, sender, args) ==
    IF i > Len(hs) THEN [invoked |-> <<>>, to |-> <<>>, passed |-> <<>>, ret |-> None]
    ELSE LET filters == hs[i].filters
             cmd == args[1]
         IN  IF CommandMatches(filters, cmd)
             THEN IF PredicateRejects(filters, sender)
                  THEN ScanHandlers(hs, i + 1, sender, args)
                  ELSE [invoked |-> <<i>>, to |-> <<sender>>,
                        passed |-> HandlerArgs(filters, args), ret |-> "True"]
             ELSE ScanHandlers(hs, i + 1, sender, args)

\* _call_handlers(sender, args)
CallHandlers(hs, sender, args) == ScanHandlers(hs, 1, sender, args)

(***************************************************************************)
(* SpecIRC: one caller, one IRCClient call at a time                       *)
(***************************************************************************)
NoCall == [op |-> "none", arg |-> None, raised |-> None, caught |-> None,
           resp |-> EmptyChunk, pre |-> NewClient, joinedBefore |-> FALSE,
           prevOp |-> "none", prevConnected |-> FALSE,
           chunk |-> EmptyChunk, readOk |-> TRUE]

\* a call of get_response() that is fed chunk, with read() succeeding or not
CalledRead(op, arg, out, resp, chunk, readOk) ==
    /\ irc' = out.c
    /\ lastCall' = [op |-> op, arg |-> arg, raised |-> out.raised,
                    caught |-> out.caught, resp |-> resp, pre |-> irc,
                    joinedBefore |-> lastCall.joinedBefore
                                     \/ lastCall.op = "join_channel",
                    prevOp |-> lastCall.op,
                    prevConnected |-> IsConnected(lastCall.pre),
                    chunk |-> chunk, readOk |-> readOk]

\* a call of a method that reads nothing
Called(op, arg, out, resp) == CalledRead(op, arg, out, resp, EmptyChunk, TRUE)

\* the chunks the caller of SpecIRC is fed
IrcChunks == {EmptyChunk}
             \cup {ch \in Chunks : ch.chat = <<>>}
             \cup {ch \in Chunks : /\ ch.chat = <<[userId |-> TRUE, subscriber |-> TRUE,
                                                  user |-> "user123",
                                                  words |-> <<"!greet", "world">>]>>
                                   /\ ~ch.welcome /\ ~ch.capack}

\* the model follows a transport for MaxWire lines
HasRoom == Len(irc.wire) < MaxWire

CallConnect ==
    \E openOk, drainOk \in BOOLEAN :
        /\ Called("connect", None, Connect(irc, openOk, drainOk), EmptyChunk)
        /\ UNCHANGED <<dispatchVars, inputVars, botVars, wr>>

CallGetResponse ==
    \E chunk \in IrcChunks, readOk, drainOk \in BOOLEAN :
        /\ HasRoom
        /\ LET r == GetResponse(irc, chunk, readOk, drainOk)
           IN  CalledRead("get_response", None, r, r.resp, chunk, readOk)
        /\ UNCHANGED <<dispatchVars, inputVars, botVars, wr>>

CallSendMessage ==
    \E drainOk \in BOOLEAN :
        /\ HasRoom
        /\ Called("send_message", None, SendMessage(irc, drainOk), EmptyChunk)
        /\ UNCHANGED <<dispatchVars, inputVars, botVars, wr>>

CallJoinChannel ==
    \E ch \in Channels, drainOk \in BOOLEAN :
        /\ HasRoom
        /\ Called("join_channel", ch, JoinChannel(irc, ch, drainOk), EmptyChunk)
        /\ UNCHANGED <<dispatchVars, inputVars, botVars, wr>>

CallQuitChannel ==
    \E drainOk \in BOOLEAN :
        /\ HasRoom
        /\ Called("quit_channel", None, QuitChannel(irc, drainOk), EmptyChunk)
        /\ UNCHANGED <<dispatchVars, inputVars, botVars, wr>>

CallDisconnect ==
    \E drainOk, closeOk \in BOOLEAN :
        /\ HasRoom
        /\ Called("disconnect", None, Disconnect(irc, drainOk, closeOk), EmptyChunk)
        /\ UNCHANGED <<dispatchVars, inputVars, botVars, wr>>

\* nothing parsed yet
NoParse == [tags |-> <<>>, raised |-> None, subscribed |-> FALSE, months |-> 0]

\* no _call_handlers call yet
NoDispatch == [user |-> None, args |-> <<>>, n |-> 0, invoked |-> <<>>,
               to |-> <<>>, passed |-> <<>>, ret |-> None]

\* the record of the call _call_handlers(sender, args) that gave r
Dispatched(hs, sender, args, r) ==
    [user |-> sender.username, args |-> args, n |-> Len(hs), invoked |-> r.invoked,
     to |-> r.to, passed |-> r.passed, ret |-> r.ret]

\* the bot's variables before run() is called
BotIdle ==
    /\ botRunning = FALSE
    /\ schedRunning = FALSE
    /\ mainPc = "idle"
    /\ stopBehindRun = FALSE
    /\ stopPc = "none"
    /\ schedPc = "none"
    /\ hRunning = 0
    /\ hFlushing = 0
    /\ hFailed = 0
    /\ taskErrLogged = [handler |-> 0, scheduler |-> 0]
    /\ nReads = 0
    /\ crashCause = None
    /\ lastLine = <<>>
    /\ parsed = NoParse

InitIRC ==
    /\ irc \in {NewClient, NewBotClient}
    /\ lastCall = NoCall
    /\ handlers = <<>>
    /\ tasks = <<>>
    /\ lastDispatch = NoDispatch
    /\ wr = <<>>
    /\ BotIdle

NextIRC ==
    \/ CallConnect
    \/ CallGetResponse
    \/ CallSendMessage
    \/ CallJoinChannel
    \/ CallQuitChannel
    \/ CallDisconnect

SpecIRC == InitIRC /\ [][NextIRC]_vars

(***************************************************************************)
(* SpecDispatch: registrations, then _call_handlers on tokenized inputs    *)
(***************************************************************************)
\* @bot.message_handler(messages=..., func=...)
Register ==
    \E messages \in Opt(SUBSET Cmds), func \in Opt(Preds) :
        /\ Len(handlers) < MaxHandlers
        /\ handlers' = MessageHandler(handlers, Len(handlers) + 1, messages, func)
        /\ UNCHANGED <<lastDispatch, tasks, inputVars, ircVars, botVars, wr>>

\* await self._call_handlers(sender, args)
Dispatch ==
    \E sender \in Senders, args \in ArgLists :
        /\ lastDispatch' = Dispatched(handlers, sender, args,
                                      CallHandlers(handlers, sender, args))
        /\ UNCHANGED <<handlers, tasks, inputVars, ircVars, botVars, wr>>

InitDispatch ==
    /\ irc = NewBotClient
    /\ lastCall = NoCall
    /\ handlers = <<>>
    /\ tasks = <<>>
    /\ lastDispatch = NoDispatch
    /\ wr = <<>>
    /\ BotIdle

NextDispatch == Register \/ Dispatch

SpecDispatch == InitDispatch /\ [][NextDispatch]_vars

(***************************************************************************)
(* Scheduler                                                               *)
(***************************************************************************)
\* the schedule_task registrations of examples/bot_schedule.py: one
\* unbounded task, one bounded by N
ScheduleTasks == <<-1, RepeatN>>
TaskIds == 1 .. Len(tasks)

\* a wrapper coroutine is made by Scheduler.run() or by TwitchBot.stop()
Origins == {"run", "stop"}
WrapperIds == Origins \X TaskIds

\* a wrapper coroutine: where it is, its count, and two history values: the
\* sleeps it has completed and whether _running was ever false in its lifetime
NoWrapper == [pc |-> "absent", count |-> 0, sleeps |-> 0, dropped |-> FALSE]

\* a while condition that only looks at the flag
LoopCondFlagOnly(running, repeat, count) == running

\* a while condition that lets the count reach repeat + 1
LoopCondOffByOne(running, repeat, count) ==
    running /\ (repeat = -1 \/ count <= repeat)

\* the while condition of wrapper
LoopCond(running, repeat, count) ==
    running /\ (repeat = -1 \/ count < repeat)

\* callbacks the wrapper has invoked: each completed one was counted
Fired(w) == w.count + (IF w.pc \in {"callback", "failed"} THEN 1 ELSE 0)

\* [task() for task in self._scheduled_tasks] handed to gather: one new
\* coroutine per registration, each scheduled as a task
SpawnWrappers(ws, origin, running) ==
    [id \in WrapperIds |->
        IF id[1] = origin
        THEN [pc |-> "ready", count |-> 0, sleeps |-> 0, dropped |-> ~running]
        ELSE ws[id]]

\* Scheduler.stop() seen by the wrappers that exist
MarkDropped(ws) ==
    [id \in WrapperIds |->
        IF ws[id].pc = "absent" THEN ws[id] ELSE [ws[id] EXCEPT !.dropped = TRUE]]

\* a done callback that swallows the exception without logging it
HandleTaskResultSilent(exc) == 0

\* _handle_task_result: the lines logged for a task that ended with (exc) or
\* without an exception
HandleTaskResult(exc) == IF exc THEN 1 ELSE 0

(***************************************************************************)
(* Spec: the bot on the event loop                                         *)
(***************************************************************************)
\* the registrations of examples/bot_commands.py
BotHandlers ==
    MessageHandler(MessageHandler(<<>>, 1, <<{"!test"}>>, <<"is_owner">>),
                   2, <<{"!greet"}>>, <<>>)

\* the event loop runs: run_until_complete(_run_task()) has not returned and
\* stop() has not called loop.stop(); "spin" is _run_task looping on a
\* get_response() that returns without awaiting
LoopAlive == mainPc \notin {"idle", "done", "crashed", "spin"} /\ stopPc # "stopped"

\* Sender(resp): the regular expressions for user-id= and subscriber= must match
ParseOk(line) == line.userId /\ line.subscriber
MakeSender(line) == [username |-> line.user]

\* the chunks the receive loop is fed
BotChunks ==
    {EmptyChunk}
    \cup {ch \in Chunks : /\ ~ch.welcome /\ ~ch.capack /\ ~ch.ping
                          /\ \/ ch.chat = <<>>
                             \/ /\ ch.chat # <<>>
                                /\ ch.chat[1].user = "user123"
                                /\ ch.chat[1].userId = ch.chat[1].subscriber
                                /\ ch.chat[1].words \in {<<"!greet", "world">>,
                                                         <<"world">>}}

\* the chunks fed to a bot with the registrations hs: without handlers a
\* chat line that parses is one more chunk with nothing to do, and is left out
FeedChunks(hs) ==
    IF hs # <<>> THEN BotChunks
    ELSE {ch \in BotChunks : ch.chat # <<>> => ~ch.chat[1].userId}

\* the top of "while self._running:" down to the await in get_response()
EnterLoop(running, c) ==
    IF ~running THEN "done" ELSE IF c.reader = None THEN "spin" ELSE "reading"

\* _run_task from after join_channel: the Scheduler.run() task is created
\* and the receive loop entered
StartLoop(c) ==
    /\ schedPc' = "created"
    /\ mainPc' = EnterLoop(botRunning, c)

\* bot.run(): _running set, _run_task started; the client is new, so
\* connect() makes the socket object and awaits open_connection
Run ==
    /\ mainPc = "idle"
    /\ botRunning' = TRUE
    /\ irc' = ConnectBegin(irc)
    /\ mainPc' = "open_conn"
    /\ UNCHANGED <<lastCall, dispatchVars, inputVars, schedRunning, stopBehindRun, stopPc, schedPc,
                   wr, hRunning, hFlushing, hFailed, taskErrLogged, nReads, crashCause>>

\* open_connection returns or raises
MainOpened ==
    \E openOk \in BOOLEAN :
        /\ LoopAlive /\ mainPc = "open_conn"
        /\ IF openOk
           THEN irc' = ConnectOpened(irc) /\ mainPc' = "connect_drain"
                /\ UNCHANGED crashCause
           ELSE mainPc' = "crashed" /\ crashCause' = "connect" /\ UNCHANGED irc
        /\ UNCHANGED <<lastCall, dispatchVars, inputVars, botRunning, schedRunning, stopBehindRun,
                       stopPc, schedPc, wr, hRunning, hFlushing, hFailed, taskErrLogged, nReads>>

\* the drain() of connect() returns or raises; then join_channel(self._channel)
\* up to its drain(), or past it when there is no writer
MainConnectDrained ==
    \E drainOk \in BOOLEAN :
        /\ LoopAlive /\ mainPc = "connect_drain"
        /\ IF ~drainOk
           THEN mainPc' = "crashed" /\ crashCause' = "connect"
                /\ UNCHANGED <<irc, lastCall, schedPc>>
           ELSE /\ UNCHANGED crashCause
                /\ IF irc.writer = None
                   THEN /\ Called("join_channel", irc.channel,
                                  JoinChannel(irc, irc.channel, TRUE), EmptyChunk)
                        /\ StartLoop(irc)
                   ELSE /\ irc' = Write(irc, JoinLine(irc.channel))
                        /\ mainPc' = "join_drain"
                        /\ UNCHANGED <<lastCall, schedPc>>
        /\ UNCHANGED <<dispatchVars, inputVars, botRunning, schedRunning, stopBehindRun,
                       stopPc, wr, hRunning, hFlushing, hFailed, taskErrLogged, nReads>>

\* the drain() of join_channel() returns or raises
MainJoinDrained ==
    \E drainOk \in BOOLEAN :
        /\ LoopAlive /\ mainPc = "join_drain"
        /\ Called("join_channel", irc.channel,
                  JoinDrained(irc, irc.channel, drainOk), EmptyChunk)
        /\ StartLoop(irc')
        /\ UNCHANGED <<dispatchVars, inputVars, botRunning, schedRunning, stopBehindRun,
                       stopPc, wr, hRunning, hFlushing, hFailed, taskErrLogged, nReads, crashCause>>

\* a receive loop that reads on while _call_handlers has not returned
AtReadOrInDispatch(pc) == pc \in {"reading", "dispatch_sleep"}

\* _run_task is suspended in the read() of get_response(): the loop body is
\* sequential, it gets there only after _call_handlers has returned
AtRead(pc) == pc = "reading"

\* read() returns in get_response(); the rest of the loop body down to the
\* next await: the sleep of _call_handlers or the next read()
MainRead ==
    /\ LoopAlive /\ AtRead(mainPc) /\ nReads < MaxReads
    /\ \E chunk \in FeedChunks(handlers), readOk, drainOk \in BOOLEAN :
        /\ LET r == GetResponse(irc, chunk, readOk, drainOk)
               line == r.resp.chat[1]
               sender == MakeSender(line)
               d == CallHandlers(handlers, sender, line.words)
           IN  /\ irc' = r.c
               /\ IF r.resp.chat = <<>>
                  THEN /\ mainPc' = EnterLoop(botRunning, irc')
                       /\ UNCHANGED <<hRunning, crashCause, lastLine, lastDispatch,
                                      nReads>>
                  ELSE /\ lastLine' = r.resp.chat
                       /\ nReads' = nReads + 1
                       /\ IF ~ParseOk(line)
                          THEN /\ mainPc' = "crashed" /\ crashCause' = "parse"
                               /\ UNCHANGED <<hRunning, lastDispatch>>
                          ELSE /\ lastDispatch' = Dispatched(handlers, sender,
                                                             line.words, d)
                               /\ hRunning' = hRunning + Len(d.invoked)
                               /\ mainPc' = IF d.invoked # <<>> THEN "dispatch_sleep"
                                            ELSE EnterLoop(botRunning, irc')
                               /\ UNCHANGED crashCause
        /\ UNCHANGED <<lastCall, handlers, tasks, parsed, botRunning, schedRunning,
                       stopBehindRun, stopPc, schedPc, wr, hFlushing, hFailed,
                       taskErrLogged>>

\* the sleep(0.1) of _call_handlers ends: it returns True, the loop goes on
MainDispatchSlept ==
    /\ LoopAlive /\ mainPc = "dispatch_sleep"
    /\ mainPc' = EnterLoop(botRunning, irc)
    /\ UNCHANGED <<ircVars, dispatchVars, inputVars, botRunning, schedRunning, stopBehindRun,
                   stopPc, schedPc, wr, hRunning, hFlushing, hFailed, taskErrLogged, nReads,
                   crashCause>>

\* a handler task that is not inside send_message ends, returning or
\* raising; its done callback runs
HandlerEnds ==
    \E exc \in BOOLEAN :
        /\ LoopAlive /\ hRunning > hFlushing
        /\ hRunning' = hRunning - 1
        /\ hFailed' = hFailed + (IF exc THEN 1 ELSE 0)
        /\ taskErrLogged' = [taskErrLogged EXCEPT !.handler = @ + HandleTaskResult(exc)]
        /\ UNCHANGED <<ircVars, dispatchVars, inputVars, botRunning, schedRunning, mainPc,
                       stopBehindRun, stopPc, schedPc, wr, hFlushing, nReads,
                       crashCause>>

\* a handler task calls send_message on the connected client: the line is
\* written and the task awaits drain()
HandlerSends ==
    /\ LoopAlive /\ hRunning > hFlushing
    /\ IsConnected(irc) /\ irc.writer # None
    /\ irc' = Write(irc, PrivmsgLine(irc.channel))
    /\ hFlushing' = hFlushing + 1
    /\ UNCHANGED <<lastCall, dispatchVars, inputVars, botRunning, schedRunning, mainPc,
                   stopBehindRun, stopPc, schedPc, wr, hRunning, hFailed, taskErrLogged,
                   nReads, crashCause>>

\* the drain() of a handler's send_message returns, or raises and
\* send_message logs it; send_message returns and the handler with it
HandlerFlushed ==
    /\ LoopAlive /\ hFlushing > 0
    /\ hFlushing' = hFlushing - 1
    /\ hRunning' = hRunning - 1
    /\ taskErrLogged' = [taskErrLogged EXCEPT !.handler = @ + HandleTaskResult(FALSE)]
    /\ UNCHANGED <<ircVars, dispatchVars, inputVars, botRunning, schedRunning, mainPc,
                   stopBehindRun, stopPc, schedPc, wr, hFailed, nReads, crashCause>>

\* the Scheduler.run() task starts: the flag is set, the wrappers are
\* started, run() awaits gather. Tasks start in the order they were created.
SchedRunStart ==
    /\ LoopAlive /\ schedPc = "created"
    /\ ~(stopPc = "queued" /\ ~stopBehindRun)
    /\ schedRunning' = TRUE
    /\ wr' = SpawnWrappers(wr, "run", TRUE)
    /\ schedPc' = "gather"
    /\ UNCHANGED <<ircVars, dispatchVars, inputVars, botRunning, mainPc, stopBehindRun, stopPc,
                   hRunning, hFlushing, hFailed, taskErrLogged, nReads, crashCause>>

\* a new wrapper task runs to its first await: count = 0, the while test
WrapperStart(id) ==
    /\ LoopAlive /\ wr[id].pc = "ready"
    /\ wr' = [wr EXCEPT ![id].pc =
                 IF LoopCond(schedRunning, tasks[id[2]], 0) THEN "sleeping" ELSE "done"]
    /\ UNCHANGED <<ircVars, dispatchVars, inputVars, botRunning, schedRunning, mainPc,
                   stopBehindRun, stopPc, schedPc, hRunning, hFlushing, hFailed, taskErrLogged,
                   nReads, crashCause>>

\* asyncio.sleep(time) ends: break if the flag is off, else the callback is called
WrapperWake(id) ==
    /\ LoopAlive /\ wr[id].pc = "sleeping"
    /\ tasks[id[2]] = -1 => wr[id].count < MaxCount
    /\ wr' = [wr EXCEPT ![id].sleeps = @ + 1,
                        ![id].pc = IF ~schedRunning THEN "done" ELSE "callback"]
    /\ UNCHANGED <<ircVars, dispatchVars, inputVars, botRunning, schedRunning, mainPc,
                   stopBehindRun, stopPc, schedPc, hRunning, hFlushing, hFailed, taskErrLogged,
                   nReads, crashCause>>

\* the callback returns: count += 1, the while test
WrapperCallbackReturns(id) ==
    /\ LoopAlive /\ wr[id].pc = "callback"
    /\ wr' = [wr EXCEPT ![id].count = @ + 1,
                        ![id].pc = IF LoopCond(schedRunning, tasks[id[2]],
                                               wr[id].count + 1)
                                   THEN "sleeping" ELSE "done"]
    /\ UNCHANGED <<ircVars, dispatchVars, inputVars, botRunning, schedRunning, mainPc,
                   stopBehindRun, stopPc, schedPc, hRunning, hFlushing, hFailed, taskErrLogged,
                   nReads, crashCause>>

\* the callback raises: nothing in wrapper catches it
WrapperCallbackRaises(id) ==
    /\ LoopAlive /\ wr[id].pc = "callback"
    /\ wr' = [wr EXCEPT ![id].pc = "failed"]
    /\ UNCHANGED <<ircVars, dispatchVars, inputVars, botRunning, schedRunning, mainPc,
                   stopBehindRun, stopPc, schedPc, hRunning, hFlushing, hFailed, taskErrLogged,
                   nReads, crashCause>>

\* the gather of Scheduler.run() ends: every wrapper returned, or the first
\* exception of a wrapper is raised out of run(), to the task's done callback
SchedGatherEnds ==
    /\ LoopAlive /\ schedPc = "gather"
    /\ \/ /\ \A i \in TaskIds : wr[<<"run", i>>].pc = "done"
          /\ schedPc' = "done"
          /\ taskErrLogged' = [taskErrLogged EXCEPT
                                  !.scheduler = @ + HandleTaskResult(FALSE)]
       \/ /\ \E i \in TaskIds : wr[<<"run", i>>].pc = "failed"
          /\ schedPc' = "failed"
          /\ taskErrLogged' = [taskErrLogged EXCEPT
                                  !.scheduler = @ + HandleTaskResult(TRUE)]
    /\ UNCHANGED <<ircVars, dispatchVars, inputVars, botRunning, schedRunning, mainPc,
                   stopBehindRun, stopPc, wr, hRunning, hFlushing, hFailed, nReads, crashCause>>

\* SIGINT or SIGTERM: the handler creates the task _sigint_sigterm_handler,
\* which awaits stop()
Signal ==
    /\ LoopAlive /\ stopPc = "none"
    /\ stopPc' = "queued"
    /\ stopBehindRun' = (schedPc = "created")
    /\ UNCHANGED <<ircVars, dispatchVars, inputVars, botRunning, schedRunning, mainPc, schedPc,
                   wr, hRunning, hFlushing, hFailed, taskErrLogged, nReads, crashCause>>

\* stop() from after "await self.disconnect()": the wrappers are called
\* again, which makes new coroutines, and stop() awaits their gather
StopGather(running) ==
    /\ wr' = SpawnWrappers(wr, "stop", running)
    /\ stopPc' = "gather"

\* stop() starts: both flags are cleared, disconnect() runs to its drain(),
\* or to its end when there is no writer
StopBegin ==
    /\ LoopAlive /\ stopPc = "queued"
    /\ ~(stopBehindRun /\ schedPc = "created")
    /\ botRunning' = FALSE
    /\ schedRunning' = FALSE
    /\ IF irc.writer # None
       THEN /\ irc' = DisconnectBegin(irc)
            /\ stopPc' = "disc_drain"
            /\ wr' = MarkDropped(wr)
       ELSE /\ irc' = DisconnectRest(irc)
            /\ wr' = SpawnWrappers(MarkDropped(wr), "stop", FALSE)
            /\ stopPc' = "gather"
    /\ UNCHANGED <<lastCall, dispatchVars, inputVars, mainPc, stopBehindRun, schedPc, hRunning, hFlushing,
                   hFailed, taskErrLogged, nReads, crashCause>>

\* the drain() of disconnect() returns, and disconnect() goes on to
\* wait_closed(), or raises, and disconnect() logs it and returns
StopDrained ==
    \E drainOk \in BOOLEAN :
        /\ LoopAlive /\ stopPc = "disc_drain"
        /\ IF drainOk
           THEN /\ irc' = [irc EXCEPT !.writer = "closed"]
                /\ stopPc' = "disc_closing"
                /\ UNCHANGED wr
           ELSE /\ UNCHANGED irc
                /\ StopGather(schedRunning)
        /\ UNCHANGED <<lastCall, dispatchVars, inputVars, botRunning, schedRunning, mainPc,
                       stopBehindRun, schedPc, hRunning, hFlushing, hFailed, taskErrLogged, nReads,
                       crashCause>>

\* wait_closed() returns, and disconnect() releases the rest, or raises
StopClosed ==
    \E closeOk \in BOOLEAN :
        /\ LoopAlive /\ stopPc = "disc_closing"
        /\ irc' = IF closeOk THEN DisconnectRest([irc EXCEPT !.writer = None]) ELSE irc
        /\ StopGather(schedRunning)
        /\ UNCHANGED <<lastCall, dispatchVars, inputVars, botRunning, schedRunning, mainPc,
                       stopBehindRun, schedPc, hRunning, hFlushing, hFailed, taskErrLogged, nReads,
                       crashCause>>

\* the gather of stop() ends: every new wrapper returned and stop() stops the
\* event loop, or a wrapper raised and stop() ends with that exception
StopGatherEnds ==
    /\ LoopAlive /\ stopPc = "gather"
    /\ \/ /\ \A i \in TaskIds : wr[<<"stop", i>>].pc = "done"
          /\ stopPc' = "stopped"
       \/ /\ \E i \in TaskIds : wr[<<"stop", i>>].pc = "failed"
          /\ stopPc' = "failed"
    /\ UNCHANGED <<ircVars, dispatchVars, inputVars, botRunning, schedRunning, mainPc,
                   stopBehindRun, schedPc, wr, hRunning, hFlushing, hFailed, taskErrLogged, nReads,
                   crashCause>>

\* a new TwitchBot with the registrations hs and the scheduled tasks ts
InitBot(hs, ts) ==
    /\ irc = NewBotClient
    /\ lastCall = NoCall
    /\ handlers = hs
    /\ lastDispatch = NoDispatch
    /\ tasks = ts
    /\ wr = [id \in Origins \X (1 .. Len(ts)) |-> NoWrapper]
    /\ BotIdle

\* the actions of _run_task up to the receive loop
NextStartup ==
    \/ Run
    \/ MainOpened
    \/ MainConnectDrained
    \/ MainJoinDrained
    \/ MainRead

\* the actions of the handler tasks
NextHandlers ==
    \/ MainDispatchSlept
    \/ HandlerEnds
    \/ HandlerSends
    \/ HandlerFlushed

\* the actions of the wrappers
NextWrappers ==
    \/ \E id \in WrapperIds : WrapperStart(id)
    \/ \E id \in WrapperIds : WrapperWake(id)
    \/ \E id \in WrapperIds : WrapperCallbackReturns(id)
    \/ \E id \in WrapperIds : WrapperCallbackRaises(id)

\* the actions of Scheduler.run() and of stop()
NextStop ==
    \/ SchedRunStart
    \/ SchedGatherEnds
    \/ Signal
    \/ StopBegin
    \/ StopDrained
    \/ StopClosed
    \/ StopGatherEnds

\* a bot with handlers and scheduled tasks
Init == InitBot(BotHandlers, ScheduleTasks)
Next == NextStartup \/ NextHandlers \/ NextWrappers \/ NextStop
Spec == Init /\ [][Next]_vars

\* examples/bot_schedule.py: scheduled tasks, no handler
InitSchedule == InitBot(<<>>, ScheduleTasks)
NextSchedule == NextStartup \/ NextWrappers \/ NextStop
SpecSchedule == InitSchedule /\ [][NextSchedule]_vars

\* schedule_task(time) with the default repeat = 0, beside an unbounded task
DefaultRepeatTasks == <<0, -1>>
InitDefaultRepeat == InitBot(<<>>, DefaultRepeatTasks)
SpecDefaultRepeat == InitDefaultRepeat /\ [][NextSchedule]_vars

\* examples/bot_commands.py: handlers, no scheduled task
InitCommands == InitBot(BotHandlers, <<>>)
NextCommands == NextStartup \/ NextHandlers \/ NextStop
SpecCommands == InitCommands /\ [][NextCommands]_vars

\* a bot with one registration, for "!greet", without predicate
GreetHandlers == MessageHandler(<<>>, 1, <<{"!greet"}>>, <<>>)
InitGreet == InitBot(GreetHandlers, <<>>)
SpecGreet == InitGreet /\ [][NextCommands]_vars

(***************************************************************************)
(* SpecParse: Subscription.from_response on tag prefixes                   *)
(***************************************************************************)
\* a tag "key=value;": the value is "kind/n" (badges) or the number n
BadgeInfoTag(n) == [key |-> "badge-info", kind |-> "subscriber", n |-> n]
\* "badge-info=;", as sent for a user without subscription
NoBadgeInfoTag == [key |-> "badge-info", kind |-> "", n |-> 0]
BadgesTag == [key |-> "badges", kind |-> "subscriber", n |-> 6]
SubscriberTag(n) == [key |-> "subscriber", kind |-> "", n |-> n]
UserIdTag == [key |-> "user-id", kind |-> "", n |-> 42]
Tags == {BadgeInfoTag(7), NoBadgeInfoTag, BadgesTag, SubscriberTag(1), SubscriberTag(0),
         UserIdTag}

\* the tag prefixes "@tag;tag;...": no key twice
TagLists ==
    {ts \in UNION {[1 .. n -> Tags] : n \in 0 .. MaxTags} :
        \A i, j \in 1 .. Len(ts) : ts[i].key = ts[j].key => i = j}

\* re.search("subscriber=(.*?);", resp): the leftmost "subscriber=" is that
\* of the subscriber tag ("badge-info=subscriber/7" has no "subscriber=")
SubscriberMatch(ts) == {i \in 1 .. Len(ts) : ts[i].key = "subscriber"}

\* re.search("@badge-info=subscriber\/(.*?);", resp): the "@" stands only
\* before the first tag
BadgeInfoMatch(ts) ==
    {i \in 1 .. Len(ts) : i = 1 /\ ts[i].key = "badge-info" /\ ts[i].kind = "subscriber"}

\* Subscription.from_response(resp)
FromResponse(ts) ==
    IF SubscriberMatch(ts) = {}
    THEN [tags |-> ts, raised |-> "AttributeError", subscribed |-> FALSE, months |-> 0]
    ELSE LET s == CHOOSE i \in SubscriberMatch(ts) : \A j \in SubscriberMatch(ts) : i <= j
         IN  [tags |-> ts, raised |-> None,
              subscribed |-> (ts[s].n # 0),
              months |-> IF BadgeInfoMatch(ts) # {} THEN ts[1].n ELSE 0]

ParseSubscription ==
    \E ts \in TagLists :
        /\ parsed' = FromResponse(ts)
        /\ UNCHANGED <<ircVars, dispatchVars, lastLine, botVars, wr>>

InitParse ==
    /\ irc = NewBotClient
    /\ lastCall = NoCall
    /\ handlers = <<>>
    /\ tasks = <<>>
    /\ lastDispatch = NoDispatch
    /\ wr = <<>>
    /\ BotIdle

NextParse == ParseSubscription

SpecParse == InitParse /\ [][NextParse]_vars

(***************************************************************************)
(* Claims                                                                  *)
(***************************************************************************)
\* _run_task has passed join_channel: the Scheduler.run() task was created
\* and the receive loop entered
Started == schedPc # "none" \/ mainPc \in {"reading", "spin", "dispatch_sleep", "done"}

\* the registrations the last _call_handlers call saw, what it was called with
DispatchedList == SubSeq(handlers, 1, lastDispatch.n)
DispatchedSender == [username |-> lastDispatch.user]

\* registration i fully matches the last dispatched input: its command list,
\* if present, contains the command word and its predicate, if present, is true
FullyMatches(i) ==
    LET f == DispatchedList[i].filters
    IN  /\ ("commands" \in DOMAIN f) => (lastDispatch.args[1] \in f["commands"])
        /\ ("func" \in DOMAIN f) => PredEval(f["func"], DispatchedSender)

MatchingSet == {i \in 1 .. lastDispatch.n : FullyMatches(i)}

\* C1: for every registration list and every tokenized input, _call_handlers
\* invokes exactly the first registration whose command list, if present,
\* contains the command word and whose predicate, if present, returns true;
\* a registration without a command list matches any command word; no later
\* matching registration is invoked, and nothing is invoked when none matches.
C1_FirstMatchInvoked ==
    lastDispatch.args # <<>> =>
        IF MatchingSet = {}
        THEN lastDispatch.invoked = <<>> /\ lastDispatch.ret = None
        ELSE /\ lastDispatch.invoked =
                    <<CHOOSE i \in MatchingSet : \A j \in MatchingSet : i <= j>>
             /\ lastDispatch.ret = "True"

\* C1 witness: two registrations match, the first of them is a catch-all
\* that is not at the head of the list, and it alone was invoked
C1_Witness ==
    /\ lastDispatch.args # <<>>
    /\ Cardinality(MatchingSet) >= 2
    /\ \E i \in MatchingSet :
          /\ i > 1
          /\ lastDispatch.invoked = <<i>>
          /\ ~("commands" \in DOMAIN DispatchedList[i].filters)

\* C2: a wrapper with repeat = N > 0 never fires its callback more than N
\* times and never completes more than N sleeps; when the running flag was
\* true throughout, then once N sleeps have elapsed the callback has fired
\* exactly N times and the wrapper is in its last callback or has ended: it
\* has not started another sleep.
C2_RepeatNFiresNTimes ==
    \A id \in WrapperIds :
        LET w == wr[id]
            N == tasks[id[2]]
        IN  N > 0 =>
              /\ Fired(w) <= N
              /\ w.sleeps <= N
              /\ (~w.dropped /\ w.sleeps = N) =>
                     (Fired(w) = N /\ w.pc \in {"callback", "done", "failed"})
              /\ (~w.dropped /\ w.pc = "done") => (w.count = N /\ w.sleeps = N)

\* C2 witness: a wrapper with repeat = N > 0 has ended after N sleeps and N
\* firings with the flag true throughout
C2_Witness ==
    \E id \in WrapperIds :
        /\ tasks[id[2]] > 0
        /\ wr[id].pc = "done" /\ ~wr[id].dropped
        /\ wr[id].sleeps = tasks[id[2]] /\ wr[id].count = tasks[id[2]]

\* Scheduler.stop() has been called (by TwitchBot.stop())
SchedulerStopped == stopPc \notin {"none", "queued"}

\* C3: after stop(), no callback of any scheduled task fires and no wrapper
\* starts a new sleep: each wrapper at most completes the sleep in progress
\* and then ends.
C3_NoFiringAfterStop ==
    [][SchedulerStopped =>
          \A id \in WrapperIds :
              /\ Fired(wr'[id]) <= Fired(wr[id])
              /\ wr'[id].pc = "sleeping" => wr[id].pc = "sleeping"]_vars

\* C4: the bot is stopped (stop() has stopped the event loop) only after
\* every wrapper started by Scheduler.run() has finished; in particular a
\* wrapper inside its callback has run it to completion.
C4_StoppedAfterWrappers ==
    stopPc = "stopped" =>
        \A i \in TaskIds : wr[<<"run", i>>].pc \in {"absent", "done", "failed"}

\* C5: a chat line that cannot be parsed into a Sender does not end the
\* receive loop.
C5_ParseFailureCaught == ~(mainPc = "crashed" /\ crashCause = "parse")

\* C6: a handler task that raises leaves _run_task where it is (the receive
\* loop is not ended, _call_handlers does not fail, the lines read are
\* unchanged) and its failure is logged once by the done callback.
C6_HandlerFailureLogged ==
    [][hFailed' # hFailed =>
          /\ hFailed' = hFailed + 1
          /\ taskErrLogged'.handler = taskErrLogged.handler + 1
          /\ mainPc' = mainPc
          /\ crashCause' = crashCause
          /\ nReads' = nReads]_vars

\* C6 witness: a handler has raised and the receive loop is awaiting the
\* next chunk
C6_Witness ==
    /\ hFailed >= 1 /\ taskErrLogged.handler >= 1
    /\ nReads >= 1
    /\ mainPc = "reading" /\ crashCause = None

\* C7: Scheduler.run() never fails because a callback raised.
C7_RunDoesNotFail == schedPc # "failed"

\* C8: after disconnect() the writer, the reader and the socket are all cleared.
C8_DisconnectReleasesAll ==
    lastCall.op = "disconnect" =>
        (irc.writer = None /\ irc.reader = None /\ irc.sock = None)

\* C9: send_message called while connected and before any join_channel call
\* fails with a no-channel error and writes nothing to the transport.
C9_SendBeforeJoinFails ==
    (/\ lastCall.op = "send_message"
     /\ IsConnected(lastCall.pre)
     /\ ~lastCall.joinedBefore) =>
        (lastCall.raised = "NoChannelError" /\ irc.wire = lastCall.pre.wire)

\* C10: join_channel called when no transport is open raises
\* NotConnectedError to its caller and leaves the current channel unchanged.
C10_JoinNotConnectedRaises ==
    (lastCall.op = "join_channel" /\ lastCall.pre.writer = None) =>
        (lastCall.raised = "NotConnectedError" /\ irc.channel = lastCall.pre.channel)

\* C11: the bot creates the Scheduler.run() task and enters the receive loop
\* only after join_channel succeeded: a failure of the initial connect() or
\* join_channel() aborts startup.
C11_StartupAbortsOnFailure ==
    Started => /\ lastCall.op = "join_channel"
               /\ lastCall.raised = None /\ lastCall.caught = None

\* C12: two connect() calls in a row on a client that was not connected open
\* one transport and send the handshake lines (capability request,
\* credential, nickname, in that order) exactly once; the second call
\* writes nothing.
C12_ConnectIdempotent ==
    (/\ lastCall.op = "connect" /\ lastCall.prevOp = "connect"
     /\ ~lastCall.prevConnected) =>
        /\ irc = lastCall.pre
        /\ irc.writer = "open" /\ irc.reader = "open"
        /\ irc.wire = <<CapLine, PassLine, NickLine>>

\* registration i has the command word in its command list and a predicate
\* that is false for the last dispatched sender
Rejected(i) ==
    LET f == DispatchedList[i].filters
    IN  /\ "commands" \in DOMAIN f /\ lastDispatch.args[1] \in f["commands"]
        /\ "func" \in DOMAIN f /\ ~PredEval(f["func"], DispatchedSender)

\* C13: a registration whose command list contains the command word but
\* whose predicate is false for the sender is not invoked, and the scan goes
\* on: when a later registration matches, a matching registration is invoked.
C13_RejectedSkipped ==
    lastDispatch.args # <<>> =>
        \A i \in 1 .. lastDispatch.n :
            Rejected(i) =>
                /\ lastDispatch.invoked # <<i>>
                /\ (\E j \in (i + 1) .. lastDispatch.n : FullyMatches(j)) =>
                       \E k \in MatchingSet : lastDispatch.invoked = <<k>>

\* C13 witness: a registration was rejected by its predicate and a later
\* one was invoked
C13_Witness ==
    /\ lastDispatch.args # <<>>
    /\ \E i \in 1 .. lastDispatch.n :
          /\ Rejected(i)
          /\ \E k \in (i + 1) .. lastDispatch.n : lastDispatch.invoked = <<k>>

\* C14: the invoked handler receives the sender and, when its registration
\* has a command list, the tokens after the command word; when it has none,
\* all the tokens, the first included.
C14_HandlerReceives ==
    lastDispatch.invoked # <<>> =>
        LET f == DispatchedList[lastDispatch.invoked[1]].filters
            args == lastDispatch.args
            passed == lastDispatch.passed
        IN  /\ lastDispatch.to = <<DispatchedSender>>
            /\ IF "commands" \in DOMAIN f
               THEN /\ Len(passed) = Len(args) - 1
                    /\ \A k \in 1 .. Len(passed) : passed[k] = args[k + 1]
               ELSE passed = args

\* C14 witness: a registration without a command list was invoked with a
\* two-token input and got both tokens
C14_Witness ==
    /\ lastDispatch.invoked # <<>>
    /\ ~("commands" \in DOMAIN DispatchedList[lastDispatch.invoked[1]].filters)
    /\ Len(lastDispatch.args) = 2
    /\ lastDispatch.passed = lastDispatch.args

\* C15: Scheduler.run() has ended, by returning or by raising, only when
\* every wrapper it started has ended its loop.
C15_RunEndsAfterWrappers ==
    schedPc \in {"done", "failed"} =>
        \A i \in TaskIds : wr[<<"run", i>>].pc \in {"done", "failed"}

\* C16: a wrapper registered with repeat = 0 never sleeps and never invokes
\* its callback.
C16_RepeatZeroNeverRuns ==
    \A id \in WrapperIds :
        tasks[id[2]] = 0 =>
            /\ wr[id].pc \in {"absent", "ready", "done"}
            /\ wr[id].sleeps = 0 /\ Fired(wr[id]) = 0

\* C16 witness: Scheduler.run() started a repeat = 0 wrapper with the flag
\* true and the wrapper has ended, while the unbounded one has fired
C16_Witness ==
    \E i, j \in TaskIds :
        /\ tasks[i] = 0
        /\ wr[<<"run", i>>].pc = "done" /\ ~wr[<<"run", i>>].dropped
        /\ tasks[j] = -1 /\ Fired(wr[<<"run", j>>]) >= 1

\* C17: get_response() never raises. When a chunk was read it returns the
\* empty string for a chunk with the keepalive probe, after writing one
\* keepalive reply to the open transport, and for a chunk with the greeting
\* or the capability acknowledgement; any other chunk is returned
\* unchanged; a read or decode error gives the empty string. Only the
\* keepalive reply is ever written.
C17_GetResponseClassifies ==
    (lastCall.op = "get_response" /\ lastCall.pre.reader # None) =>
        LET chunk == lastCall.chunk
            pre == lastCall.pre
            pong == lastCall.readOk /\ chunk.ping /\ pre.writer = "open"
        IN  /\ lastCall.raised = None
            /\ irc.wire = IF pong THEN Append(pre.wire, PongLine) ELSE pre.wire
            /\ lastCall.resp =
                   IF ~lastCall.readOk \/ chunk.ping \/ chunk.welcome \/ chunk.capack
                   THEN EmptyChunk ELSE chunk

\* C17 witness: a chunk with the capability acknowledgement and no probe was
\* read from an open transport and the empty string returned
C17_Witness ==
    /\ lastCall.op = "get_response" /\ lastCall.pre.reader # None
    /\ lastCall.readOk
    /\ lastCall.chunk.capack /\ ~lastCall.chunk.ping /\ ~lastCall.chunk.welcome
    /\ lastCall.resp = EmptyChunk
    /\ irc.wire = lastCall.pre.wire

\* ":user123!user@twitch.tv PRIVMSG #chan :!greet world": no tag prefix
RawGreetLine == [userId |-> FALSE, subscriber |-> FALSE, user |-> "user123",
                 words |-> <<"!greet", "world">>]

\* C18: when the running bot, with one registration for "!greet" and no
\* predicate, receives the raw line above, that handler is invoked with
\* sender.username = "user123" and args = <<"world">>.
C18_RawGreetDispatched ==
    lastLine = <<RawGreetLine>> =>
        /\ mainPc # "crashed"
        /\ lastDispatch.invoked = <<1>>
        /\ lastDispatch.to = <<[username |-> "user123"]>>
        /\ lastDispatch.passed = <<"world">>

\* the last parsed tag prefix has the tag t
HasTag(t) == \E i \in 1 .. Len(parsed.tags) : parsed.tags[i] = t

\* C19: a line with subscriber=1; and, anywhere in its tag prefix,
\* badge-info=subscriber/7; parses to (subscribed, 7 months); a line with
\* subscriber=0; and no badge-info tag parses to (not subscribed, 0 months).
C19_SubscriptionParsed ==
    /\ (HasTag(SubscriberTag(1)) /\ HasTag(BadgeInfoTag(7))) =>
           (parsed.raised = None /\ parsed.subscribed /\ parsed.months = 7)
    /\ (/\ HasTag(SubscriberTag(0))
        /\ \A i \in 1 .. Len(parsed.tags) : parsed.tags[i].key # "badge-info") =>
           (parsed.raised = None /\ ~parsed.subscribed /\ parsed.months = 0)

\* C20: at most one caller of send_message is between its write() and the
\* return of its drain().
C20_SendSerialized == hFlushing <= 1

\* C21: once stop() has set the running flags false, no wrapper starts a new
\* sleep and the receive loop starts no new read: the read in progress
\* returns, its chunk is handled, and the loop is left.
C21_NoNewCycleAfterStop ==
    [][SchedulerStopped =>
          /\ \A id \in WrapperIds :
                 wr'[id].pc = "sleeping" => wr[id].pc = "sleeping"
          /\ mainPc' \in {"reading", "spin"} => mainPc' = mainPc
          /\ nReads' # nReads => (mainPc = "reading" /\ mainPc' # "reading")]_vars

\* C22: the current channel is set only while the transport is open and a
\* channel has been joined: it is unset before the first join_channel call
\* and unset after quit_channel() or disconnect().
C22_ChannelOnlyWhileJoined ==
    /\ irc.channel # None =>
           /\ irc.writer = "open"
           /\ lastCall.joinedBefore \/ lastCall.op = "join_channel"
    /\ lastCall.op \in {"quit_channel", "disconnect"} => irc.channel = None

\* C24: once stop() has set the scheduler's flag false, the flag is never
\* true again.
C24_FlagStaysFalse == SchedulerStopped => ~schedRunning

\* C25: whenever _is_connected() is true, the reader and the writer exist.
C25_ConnectedHasStreams ==
    IsConnected(irc) => (irc.reader # None /\ irc.writer # None)

\* C26: a chat line in a chunk that get_response() read is in what
\* get_response() returns, whatever control lines the chunk also has.
C26_ChatNotLost ==
    (/\ lastCall.op = "get_response" /\ lastCall.pre.reader # None
     /\ lastCall.readOk /\ lastCall.chunk.chat # <<>>) =>
        lastCall.resp.chat = lastCall.chunk.chat

\* C23: a chat line is handed to _call_handlers in the step that takes it
\* from the transport, so lines are dispatched in arrival order; no chunk is
\* read while a _call_handlers call has not returned; the handler tasks
\* created earlier are not waited for.
C23_DispatchInArrivalOrder ==
    [][/\ nReads' # nReads =>
             /\ mainPc = "reading"
             /\ nReads' = nReads + 1
             /\ lastLine' # <<>>
             /\ ParseOk(lastLine'[1]) =>
                    /\ lastDispatch'.user = lastLine'[1].user
                    /\ lastDispatch'.args = lastLine'[1].words
       /\ (lastDispatch' # lastDispatch \/ lastLine' # lastLine) =>
             nReads' = nReads + 1
       /\ mainPc = "dispatch_sleep" =>
             (nReads' = nReads /\ hRunning' <= hRunning)]_vars

\* C23 witness: the second line was dispatched while the handler of the
\* first was still running, and its _call_handlers call has not returned
C23_Witness ==
    /\ nReads = 2 /\ hRunning = 2
    /\ mainPc = "dispatch_sleep"
    /\ lastDispatch.invoked # <<>>

====
